---- MODULE Spec2Model ----
(***************************************************************************)
(* LCD driver over an I2C port expander (src/reciever.py).                 *)
(*                                                                         *)
(* Strings are sequences of one-character strings; ord is the code-point   *)
(* table.  Times are in microseconds.  The call stack is explicit: an      *)
(* action of a function is enabled when that function is on top of it.     *)
(* One action holds at most one bus.write_byte call.                       *)
(***************************************************************************)
EXTENDS Integers, Sequences, FiniteSets, TLC

\* ------------------------------------------------------------ constants
I2C_ADDR == 39
LCD_WIDTH == 16
LCD_CHR == 1
LCD_CMD == 0
LCD_LINE_1 == 128
LCD_LINE_2 == 192
ENABLE == 4
E_PULSE == 500
E_DELAY == 500
BACKLIGHT_OFF == 0
BACKLIGHT_ON == 8
DEFAULT_DELAY == 300000

\* ------------------------------------------------------------ bounds
MaxLen == 17
MaxCycles == 2

\* ------------------------------------------------------------ integers
\* Python's &, | and "a & ~b" on non-negative integers of any size.
RECURSIVE BitAnd(_, _)
BitAnd(a, b) ==
    IF a = 0 \/ b = 0 THEN 0
    ELSE (a % 2) * (b % 2) + 2 * BitAnd(a \div 2, b \div 2)

RECURSIVE BitOr(_, _)
BitOr(a, b) ==
    IF a = 0 THEN b
    ELSE IF b = 0 THEN a
    ELSE (IF a % 2 = 1 \/ b % 2 = 1 THEN 1 ELSE 0) + 2 * BitOr(a \div 2, b \div 2)

RECURSIVE BitAndNot(_, _)
BitAndNot(a, b) ==
    IF a = 0 THEN 0
    ELSE (a % 2) * (1 - (b % 2)) + 2 * BitAndNot(a \div 2, b \div 2)

ShiftLeft4(a) == a * 16

\* ------------------------------------------------------------ strings
ord ==
    [c \in {" ", "!", "'", ",", "8", "A", "B", "C", "H", "N", "P", "Q", "X",
            "d", "e", "h", "l", "n", "o", "r", "t", "w", "y", "U+263A"} |->
        CASE c = " " -> 32  [] c = "!" -> 33  [] c = "'" -> 39  [] c = "," -> 44
          [] c = "8" -> 56  [] c = "A" -> 65  [] c = "B" -> 66  [] c = "C" -> 67
          [] c = "H" -> 72  [] c = "N" -> 78  [] c = "P" -> 80  [] c = "Q" -> 81
          [] c = "X" -> 88  [] c = "d" -> 100 [] c = "e" -> 101 [] c = "h" -> 104
          [] c = "l" -> 108 [] c = "n" -> 110 [] c = "o" -> 111 [] c = "r" -> 114
          [] c = "t" -> 116 [] c = "w" -> 119 [] c = "y" -> 121
          [] c = "U+263A" -> 9786]

Spaces(n) == [i \in 1..n |-> " "]

ljust_pad(message, width) == message \o Spaces(width - Len(message))

\* str.rjust in place of str.ljust: the padding goes in front.
ljust_front(message, width) ==
    IF Len(message) >= width THEN message ELSE Spaces(width - Len(message)) \o message

\* str.ljust(width, " "): a string already that long is returned unchanged.
ljust(message, width) ==
    IF Len(message) >= width THEN message ELSE ljust_pad(message, width)


\* ------------------------------------------------------------ inputs
Pattern == <<"A", "B", "U+263A", " ", "C">>

\* The content of length n: Pattern repeated (period 5, so the character past
\* the display width differs from the first one).
Msg(n) == [i \in 1..n |-> Pattern[((i - 1) % Len(Pattern)) + 1]]

HELLO == <<"H", "e", "l", "l", "o", ",", " ", "w", "o", "r", "l", "'", "'", "'", "d", "!">>
PYTHON == <<"P", "y", "t", "h", "o", "n", " ", "o", "n", " ", "Q", "N", "X", " ", "8", "!">>

Messages == {Msg(n) : n \in 0..MaxLen} \cup {HELLO, PYTHON}
MarqueeMessages == {Msg(n) : n \in {0, 2, LCD_WIDTH, MaxLen}}
Lines == {LCD_LINE_1, LCD_LINE_2}
\* A line argument that is neither cursor-home address.
OTHER_LINE == 148
LineArgs == Lines \cup {OTHER_LINE}
Modes == {LCD_CMD, LCD_CHR}
Bytes == 0..255
Backlights == {BACKLIGHT_OFF, BACKLIGHT_ON}
Cycles == 0..MaxCycles
\* The (message, line, delay) arguments of the marquee_smooth calls: every
\* message on both lines at the default delay, and a short message with no
\* delay and on a line that is no cursor-home address.
MarqueeArgs ==
    (MarqueeMessages \X Lines \X {DEFAULT_DELAY})
        \cup {<<Msg(2), LCD_LINE_2, 0>>, <<Msg(2), OTHER_LINE, DEFAULT_DELAY>>}

\* ------------------------------------------------------------ state
VARIABLES
    LCD_BACKLIGHT,   \* the module-level backlight flag
    stack,           \* the call stack, innermost function last
    init_f,          \* lcd_init: how many of its commands were issued
    string_f,        \* lcd_string: message (padded), line, i (next transfer)
    marquee_f,       \* marquee_smooth: its locals and loop position
    byte_f,          \* lcd_byte: bits_high, bits_low, pc (next bus write)
    busLog,          \* history: bus events since the current render began
    sendLog,         \* history: bus events of the current (or last) lcd_byte
    sendBacklight,   \* history: LCD_BACKLIGHT when the current lcd_byte began
    xferLog,         \* history: lcd_byte calls (bits, mode) of the current render
    renderCall,      \* history: the lcd_init/lcd_string/lcd_byte call being logged
    frameLog,        \* history: lcd_string calls and sleeps of the current scroll
    marqueeCall,     \* history: the arguments of the current marquee_smooth call
    lastRender,      \* history: the logs of the lcd_string call before this one,
                     \*          when it had the same arguments
    busTotal,        \* history: bus writes made since the caller started
    raised,          \* the exception that ended the last call, or "none"
    main_pc,         \* the main program: the line it is at ("api": any caller)
    mainLog,         \* history: the statements the main program has finished
    pin_setup,       \* GPIO: what each pin was set up as
    pin16,           \* GPIO: the level driven on the LED pin
    pin20,           \* GPIO: the level of the button pin
    registered,      \* GPIO: the edges of pin 20 the callback is registered for
    pending,         \* GPIO: edges seen whose callback has not started yet
    edges,           \* how many times the level of pin 20 has changed
    callback_f,      \* buttonPressed: pin (argument), level (sampled), pc
    gpioLog,         \* history: GPIO calls of the current (or last) buttonPressed
    completed        \* history: some buttonPressed invocation has returned

frames == <<init_f, string_f, marquee_f, byte_f>>
history == <<busLog, sendLog, sendBacklight, xferLog, renderCall, frameLog, marqueeCall>>
tally == <<lastRender, busTotal>>
gpio == <<pin_setup, pin16, pin20, registered, pending, edges, callback_f, gpioLog, completed>>
main == <<main_pc, mainLog>>
world == <<gpio, main, raised>>
vars == <<LCD_BACKLIGHT, stack, frames, history, tally, world>>

NoString == [message |-> <<>>, line |-> 0, i |-> 0]
NoMarquee == [scroll_text |-> <<>>, length |-> 0, line |-> 0, delay |-> 0,
              cycles |-> 0, cycle |-> 0, pos |-> 0, pc |-> "none"]
NoByte == [bits_high |-> 0, bits_low |-> 0, pc |-> "none"]
NoRender == [fn |-> "none", message |-> <<>>, line |-> 0]
NoScroll == [fn |-> "none", message |-> <<>>, line |-> 0, delay |-> 0, cycles |-> 0]
NoLast == [fn |-> "none", busLog |-> <<>>, xferLog |-> <<>>]
NoCallback == [pin |-> 0, level |-> "none", pc |-> "none"]
LED == 16
BUTTON == 20

Top == IF stack = <<>> THEN "idle" ELSE stack[Len(stack)]
Pop == SubSeq(stack, 1, Len(stack) - 1)
Active(fn) == \E k \in 1..Len(stack) : stack[k] = fn

\* The state when the module's definitions have been executed and the
\* program is at pc: the first line of the main program, or "api" when any
\* caller uses the functions.
Start(pc) ==
    /\ LCD_BACKLIGHT = BACKLIGHT_OFF
    /\ stack = <<>>
    /\ init_f = 0
    /\ string_f = NoString
    /\ marquee_f = NoMarquee
    /\ byte_f = NoByte
    /\ busLog = <<>>
    /\ sendLog = <<>>
    /\ sendBacklight = BACKLIGHT_OFF
    /\ xferLog = <<>>
    /\ renderCall = NoRender
    /\ frameLog = <<>>
    /\ marqueeCall = NoScroll
    /\ lastRender = NoLast
    /\ busTotal = 0
    /\ raised = "none"
    /\ main_pc = pc
    /\ mainLog = <<>>
    /\ pin_setup = [p \in {LED, BUTTON} |-> "none"]
    /\ pin16 = "none"
    /\ pin20 = "HIGH"
    /\ registered = "none"
    /\ pending = 0
    /\ edges = 0
    /\ callback_f = NoCallback
    /\ gpioLog = <<>>
    /\ completed = FALSE

Init == Start("api")

\* ------------------------------------------------------------ bus
write_byte(addr, data) == <<"write_byte", addr, data>>
sleep(t) == <<"sleep", t>>

\* ------------------------------------------------------------ lcd_byte
\* The upper nibble without its "& 0xF0" mask.
bits_high_unmasked(bits, mode) ==
    BitOr(BitOr(mode, bits), LCD_BACKLIGHT)

\* The backlight flag merged in one bit too high.
bits_high_shifted(bits, mode) ==
    BitOr(BitOr(mode, BitAnd(bits, 240)), 2 * LCD_BACKLIGHT)

bits_high(bits, mode) ==
    BitOr(BitOr(mode, BitAnd(bits, 240)), LCD_BACKLIGHT)

\* The lower nibble without the backlight bit.
bits_low_dark(bits, mode) ==
    BitOr(mode, BitAnd(ShiftLeft4(bits), 240))

\* The lower nibble without the mode bit.
bits_low_modeless(bits, mode) ==
    BitOr(BitAnd(ShiftLeft4(bits), 240), LCD_BACKLIGHT)

\* The lower nibble without its "& 0xF0" mask.
bits_low_unmasked(bits, mode) ==
    BitOr(BitOr(mode, ShiftLeft4(bits)), LCD_BACKLIGHT)

bits_low(bits, mode) ==
    BitOr(BitOr(mode, BitAnd(ShiftLeft4(bits), 240)), LCD_BACKLIGHT)

\* Entering lcd_byte(bits, mode) from a caller whose transfer log is log:
\* the two nibble bytes are computed on entry, before any bus write.
enter_lcd_byte(bits, mode, log) ==
    /\ byte_f' = [bits_high |-> bits_high(bits, mode),
                  bits_low |-> bits_low(bits, mode), pc |-> "high"]
    /\ stack' = Append(stack, "lcd_byte")
    /\ xferLog' = Append(log, <<bits, mode>>)
    /\ sendBacklight' = LCD_BACKLIGHT
    /\ sendLog' = <<>>

\* A pulse that waits but never raises the enable bit.
lcd_toggle_enable_unset(bits) ==
    << sleep(E_DELAY) >>

\* lcd_toggle_enable(bits), up to and including its first bus write.
lcd_toggle_enable_set(bits) ==
    << sleep(E_DELAY), write_byte(I2C_ADDR, BitOr(bits, ENABLE)) >>

\* A pulse that drops the enable bit before the pulse delay has passed.
lcd_toggle_enable_early(bits) ==
    << write_byte(I2C_ADDR, BitAndNot(bits, ENABLE)), sleep(E_PULSE), sleep(E_DELAY) >>

\* lcd_toggle_enable(bits), from its pulse delay to its return.
lcd_toggle_enable_clear(bits) ==
    << sleep(E_PULSE), write_byte(I2C_ADDR, BitAndNot(bits, ENABLE)), sleep(E_DELAY) >>

lcd_byte_events ==
    CASE byte_f.pc = "high" -> << write_byte(I2C_ADDR, byte_f.bits_high) >>
      [] byte_f.pc = "high_set" -> lcd_toggle_enable_set(byte_f.bits_high)
      [] byte_f.pc = "high_clear" -> lcd_toggle_enable_clear(byte_f.bits_high)
      [] byte_f.pc = "low" -> << write_byte(I2C_ADDR, byte_f.bits_low) >>
      [] byte_f.pc = "low_set" -> lcd_toggle_enable_set(byte_f.bits_low)
      [] byte_f.pc = "low_clear" -> lcd_toggle_enable_clear(byte_f.bits_low)

lcd_byte_next ==
    CASE byte_f.pc = "high" -> "high_set"
      [] byte_f.pc = "high_set" -> "high_clear"
      [] byte_f.pc = "high_clear" -> "low"
      [] byte_f.pc = "low" -> "low_set"
      [] byte_f.pc = "low_set" -> "low_clear"
      [] byte_f.pc = "low_clear" -> "return"

\* One bus write of lcd_byte (with the sleeps around it); the last one returns.
lcd_byte ==
    /\ Top = "lcd_byte"
    /\ busLog' = busLog \o lcd_byte_events
    /\ sendLog' = sendLog \o lcd_byte_events
    /\ IF lcd_byte_next = "return"
       THEN byte_f' = NoByte /\ stack' = Pop
       ELSE byte_f' = [byte_f EXCEPT !.pc = lcd_byte_next] /\ stack' = stack
    /\ UNCHANGED <<LCD_BACKLIGHT, init_f, string_f, marquee_f>>
    /\ UNCHANGED <<sendBacklight, xferLog, renderCall, frameLog, marqueeCall>>
    /\ busTotal' = busTotal + 1
    /\ UNCHANGED <<lastRender, world>>

\* ------------------------------------------------------------ lcd_init
\* The reset command issued once, after the 4-bit mode select.
lcd_init_commands_swapped == <<50, 51, 6, 12, 40, 1>>

lcd_init_commands == <<51, 50, 6, 12, 40, 1>>

\* The next lcd_byte call of lcd_init.
lcd_init ==
    /\ Top = "lcd_init"
    /\ init_f < Len(lcd_init_commands)
    /\ init_f' = init_f + 1
    /\ enter_lcd_byte(lcd_init_commands[init_f + 1], LCD_CMD, xferLog)
    /\ UNCHANGED <<LCD_BACKLIGHT, string_f, marquee_f>>
    /\ UNCHANGED <<busLog, renderCall, frameLog, marqueeCall>>
    /\ UNCHANGED <<tally, world>>

\* The settle delay that ends lcd_init, and its return.
lcd_init_return ==
    /\ Top = "lcd_init"
    /\ init_f = Len(lcd_init_commands)
    /\ busLog' = Append(busLog, sleep(E_DELAY))
    /\ init_f' = 0
    /\ stack' = Pop
    /\ UNCHANGED <<LCD_BACKLIGHT, string_f, marquee_f, byte_f>>
    /\ UNCHANGED <<sendLog, sendBacklight, xferLog, renderCall, frameLog, marqueeCall>>
    /\ UNCHANGED <<tally, world>>

\* ------------------------------------------------------------ lcd_string
\* Entering lcd_string(message, line): the message is padded on entry.
enter_lcd_string(message, line) ==
    /\ string_f' = [message |-> ljust(message, LCD_WIDTH), line |-> line, i |-> 0]
    /\ renderCall' = [fn |-> "lcd_string", message |-> message, line |-> line]
    /\ busLog' = <<>>
    /\ xferLog' = <<>>
    /\ sendLog' = <<>>
    /\ lastRender' =
         IF /\ renderCall = [fn |-> "lcd_string", message |-> message, line |-> line]
            /\ raised = "none"
         THEN [fn |-> "lcd_string", busLog |-> busLog, xferLog |-> xferLog]
         ELSE NoLast

\* A cursor command that ignores the line argument.
lcd_string_transfer_line1(message, line, i) ==
    IF i = 0 THEN <<LCD_LINE_1, LCD_CMD>> ELSE <<ord[message[i]], LCD_CHR>>

\* The arguments of the transfer lcd_string makes at stage i: the cursor
\* command first, then message[0..15] as data.
lcd_string_transfer(message, line, i) ==
    IF i = 0 THEN <<line, LCD_CMD>> ELSE <<ord[message[i]], LCD_CHR>>

lcd_string ==
    /\ Top = "lcd_string"
    /\ string_f.i <= LCD_WIDTH
    /\ LET t == lcd_string_transfer(string_f.message, string_f.line, string_f.i)
       IN  enter_lcd_byte(t[1], t[2], xferLog)
    /\ string_f' = [string_f EXCEPT !.i = @ + 1]
    /\ UNCHANGED <<LCD_BACKLIGHT, init_f, marquee_f>>
    /\ UNCHANGED <<busLog, renderCall, frameLog, marqueeCall>>
    /\ UNCHANGED <<tally, world>>

lcd_string_return ==
    /\ Top = "lcd_string"
    /\ string_f.i > LCD_WIDTH
    /\ string_f' = NoString
    /\ stack' = Pop
    /\ UNCHANGED <<LCD_BACKLIGHT, init_f, marquee_f, byte_f>>
    /\ UNCHANGED history
    /\ UNCHANGED <<tally, world>>


\* ------------------------------------------------------------ marquee_smooth
\* Padding in front of a short message instead of behind it.
marquee_pad_front(message) ==
    IF Len(message) < LCD_WIDTH
    THEN Spaces(LCD_WIDTH - Len(message)) \o message ELSE message

\* "if len(message) < LCD_WIDTH: message = message.ljust(LCD_WIDTH)"
marquee_pad(message) ==
    IF Len(message) < LCD_WIDTH THEN ljust(message, LCD_WIDTH) ELSE message

scroll_text(message) == marquee_pad(message) \o Spaces(LCD_WIDTH)

\* The scroll length taken from the message before it was padded.
scroll_length_unpadded(message) == Len(message) + LCD_WIDTH

scroll_length(message) == Len(marquee_pad(message)) + LCD_WIDTH

\* A window that starts one character late.
window_late(text, pos) ==
    [i \in 1..LCD_WIDTH |-> text[((pos + i) % Len(text)) + 1]]

\* The window built by the inner loop: LCD_WIDTH characters from pos, each
\* index taken modulo len(scroll_text).
window(text, pos) ==
    [i \in 1..LCD_WIDTH |-> text[((pos + (i - 1)) % Len(text)) + 1]]

enter_marquee_smooth(message, line, delay, cycles) ==
    /\ marquee_f' = [scroll_text |-> scroll_text(message),
                     length |-> scroll_length(message), line |-> line,
                     delay |-> delay, cycles |-> cycles,
                     cycle |-> 0, pos |-> 0, pc |-> "render"]
    /\ marqueeCall' = [fn |-> "marquee_smooth", message |-> message, line |-> line,
                       delay |-> delay, cycles |-> cycles]
    /\ frameLog' = <<>>

\* One pass of the inner loop up to the lcd_string call.
marquee_smooth ==
    /\ Top = "marquee_smooth"
    /\ marquee_f.pc = "render"
    /\ marquee_f.cycle < marquee_f.cycles
    /\ marquee_f.pos < marquee_f.length
    /\ LET w == window(marquee_f.scroll_text, marquee_f.pos)
       IN  /\ enter_lcd_string(w, marquee_f.line)
           /\ frameLog' = Append(frameLog, <<"lcd_string", w, marquee_f.line>>)
    /\ stack' = Append(stack, "lcd_string")
    /\ marquee_f' = [marquee_f EXCEPT !.pc = "sleep"]
    /\ UNCHANGED <<LCD_BACKLIGHT, init_f, byte_f, sendBacklight, marqueeCall>>
    /\ UNCHANGED <<busTotal, world>>

\* An inner loop that starts over without ending its cycle.
marquee_advance_wrap(f) ==
    IF f.pos + 1 < f.length
    THEN [f EXCEPT !.pos = @ + 1, !.pc = "render"]
    ELSE [f EXCEPT !.pos = 0, !.pc = "render"]

\* The loops advance: the next position of this cycle, or position 0 of the
\* next cycle.
marquee_advance(f) ==
    IF f.pos + 1 < f.length
    THEN [f EXCEPT !.pos = @ + 1, !.pc = "render"]
    ELSE [f EXCEPT !.pos = 0, !.cycle = @ + 1, !.pc = "render"]

\* time.sleep(delay), then the loops advance to the next position.
marquee_smooth_sleep ==
    /\ Top = "marquee_smooth"
    /\ marquee_f.pc = "sleep"
    /\ frameLog' = Append(frameLog, sleep(marquee_f.delay))
    /\ marquee_f' = marquee_advance(marquee_f)
    /\ UNCHANGED <<LCD_BACKLIGHT, stack, init_f, string_f, byte_f>>
    /\ UNCHANGED <<busLog, sendLog, sendBacklight, xferLog, renderCall, marqueeCall>>
    /\ UNCHANGED <<tally, world>>

\* range(cycles) is exhausted: the function returns.
marquee_smooth_return ==
    /\ Top = "marquee_smooth"
    /\ marquee_f.pc = "render"
    /\ marquee_f.cycle >= marquee_f.cycles
    /\ marquee_f' = NoMarquee
    /\ stack' = Pop
    /\ UNCHANGED <<LCD_BACKLIGHT, init_f, string_f, byte_f>>
    /\ UNCHANGED history
    /\ UNCHANGED <<tally, world>>

\* ------------------------------------------------------------ callers
\* A caller of the driver: any function, with any argument, one call at a
\* time; the histories restart with each call.
\* A call by any caller: the count of bus writes starts again, and neither
\* the main program nor the GPIO facility moves.
api ==
    /\ busTotal' = 0
    /\ UNCHANGED <<gpio, main>>

\* What a call does to the driver, whoever makes it.
start_lcd_init ==
    /\ Top = "idle"
    /\ stack' = <<"lcd_init">>
    /\ init_f' = 0
    /\ renderCall' = [fn |-> "lcd_init", message |-> <<>>, line |-> 0]
    /\ busLog' = <<>>
    /\ xferLog' = <<>>
    /\ sendLog' = <<>>
    /\ frameLog' = <<>>
    /\ marqueeCall' = NoScroll
    /\ UNCHANGED <<LCD_BACKLIGHT, string_f, marquee_f, byte_f, sendBacklight>>
    /\ lastRender' = NoLast
    /\ raised' = "none"

call_lcd_init == start_lcd_init /\ api

\* An lcd_string call with the message in messages and the line in lines.
start_lcd_string(messages, lines) ==
    /\ Top = "idle"
    /\ \E message \in messages, line \in lines :
          enter_lcd_string(message, line)
    /\ stack' = <<"lcd_string">>
    /\ frameLog' = <<>>
    /\ marqueeCall' = NoScroll
    /\ UNCHANGED <<LCD_BACKLIGHT, init_f, marquee_f, byte_f, sendBacklight>>
    /\ raised' = "none"

call_lcd_string == start_lcd_string(Messages, LineArgs) /\ api

\* A top-level lcd_byte call with the value in values and the mode in modes.
start_lcd_byte(values, modes) ==
    /\ Top = "idle"
    /\ \E bits \in values, mode \in modes :
          /\ enter_lcd_byte(bits, mode, <<>>)
          /\ renderCall' = [fn |-> "lcd_byte", message |-> <<>>, line |-> 0]
    /\ busLog' = <<>>
    /\ frameLog' = <<>>
    /\ marqueeCall' = NoScroll
    /\ UNCHANGED <<LCD_BACKLIGHT, init_f, string_f, marquee_f>>
    /\ lastRender' = NoLast
    /\ raised' = "none"

call_lcd_byte == start_lcd_byte(Bytes, Modes) /\ api

\* A marquee_smooth call with (message, line, delay) in args, cycles in counts.
start_marquee_smooth(args, counts) ==
    /\ Top = "idle"
    /\ \E a \in args, cycles \in counts :
          enter_marquee_smooth(a[1], a[2], a[3], cycles)
    /\ stack' = <<"marquee_smooth">>
    /\ renderCall' = NoRender
    /\ busLog' = <<>>
    /\ xferLog' = <<>>
    /\ sendLog' = <<>>
    /\ UNCHANGED <<LCD_BACKLIGHT, init_f, string_f, byte_f, sendBacklight>>
    /\ lastRender' = NoLast
    /\ raised' = "none"

call_marquee_smooth == start_marquee_smooth(MarqueeArgs, Cycles) /\ api

\* "LCD_BACKLIGHT = 0x08" / "LCD_BACKLIGHT = 0x00" between two calls.
set_backlight ==
    /\ Top = "idle"
    /\ \E v \in Backlights : LCD_BACKLIGHT' = v
    /\ UNCHANGED <<stack, frames, history>>
    /\ UNCHANGED <<tally, world>>

Next ==
    \/ call_lcd_init
    \/ call_lcd_string
    \/ call_lcd_byte
    \/ call_marquee_smooth
    \/ set_backlight
    \/ lcd_init
    \/ lcd_init_return
    \/ lcd_string
    \/ lcd_string_return
    \/ marquee_smooth
    \/ marquee_smooth_sleep
    \/ marquee_smooth_return
    \/ lcd_byte

Spec == Init /\ [][Next]_vars

\* ------------------------------------------------------------ bus faults
is_write(e) == e[1] = "write_byte"
first_write(events) == CHOOSE k \in 1..Len(events) : is_write(events[k]) /\ \A j \in 1..(k - 1) : ~is_write(events[j])

\* The events of a step whose bus.write_byte raises: the sleeps before the
\* write happen, the write fails, nothing after it runs.
failing(events) ==
    SubSeq(events, 1, first_write(events) - 1)
        \o << <<"BusError", events[first_write(events)][2], events[first_write(events)][3]>> >>

\* A failed write that is caught and tried again.
write_byte_retried ==
    /\ Top = "lcd_byte"
    /\ busLog' = busLog \o failing(lcd_byte_events)
    /\ sendLog' = sendLog \o failing(lcd_byte_events)
    /\ UNCHANGED <<LCD_BACKLIGHT, stack, frames, tally, world>>
    /\ UNCHANGED <<sendBacklight, xferLog, renderCall, frameLog, marqueeCall>>

\* bus.write_byte raises BusError: no function on the stack catches it, so
\* every one of them ends and the error reaches the caller.
write_byte_raises ==
    /\ Top = "lcd_byte"
    /\ busLog' = busLog \o failing(lcd_byte_events)
    /\ sendLog' = sendLog \o failing(lcd_byte_events)
    /\ raised' = "BusError"
    /\ stack' = <<>>
    /\ init_f' = 0
    /\ string_f' = NoString
    /\ marquee_f' = NoMarquee
    /\ byte_f' = NoByte
    /\ UNCHANGED <<LCD_BACKLIGHT, tally, gpio, main>>
    /\ UNCHANGED <<sendBacklight, xferLog, renderCall, frameLog, marqueeCall>>

\* The calls of the runs in which writes may fail: a short, a full-width
\* and an over-long message, the clear command and one character, one short
\* scroll.
call_lcd_string_some ==
    start_lcd_string({Msg(2), Msg(LCD_WIDTH), Msg(MaxLen)}, Lines) /\ api

call_lcd_byte_some ==
    start_lcd_byte({1, 65}, Modes) /\ api

call_marquee_smooth_once ==
    start_marquee_smooth({<<Msg(2), LCD_LINE_1, 0>>}, {1}) /\ api

NextFault ==
    \/ call_lcd_init
    \/ call_lcd_string_some
    \/ call_lcd_byte_some
    \/ call_marquee_smooth_once
    \/ set_backlight
    \/ lcd_init
    \/ lcd_init_return
    \/ lcd_string
    \/ lcd_string_return
    \/ marquee_smooth
    \/ marquee_smooth_sleep
    \/ marquee_smooth_return
    \/ lcd_byte
    \/ write_byte_raises

SpecFault == Init /\ [][NextFault]_vars

\* ------------------------------------------------------------ buttonPressed
MaxEdges == 2
MaxChanges == 4
OTHER_PIN == 21
PinArgs == {BUTTON, LED, OTHER_PIN}
lcd == <<LCD_BACKLIGHT, stack, frames, history, tally, raised>>

flip(level) == IF level = "LOW" THEN "HIGH" ELSE "LOW"

\* Whether a registration for edges of this kind reports a change to level.
detects(kind, level) ==
    \/ kind = "BOTH"
    \/ kind = "FALLING" /\ level = "LOW"
    \/ kind = "RISING" /\ level = "HIGH"

\* The button is pressed or released: the GPIO facility owes the callback
\* one invocation for every change it was asked to report. At most limit
\* changes happen.
edge_within(limit) ==
    /\ edges < limit
    /\ edges' = edges + 1
    /\ pin20' = flip(pin20)
    /\ pending' = IF detects(registered, pin20') THEN pending + 1 ELSE pending
    /\ UNCHANGED <<pin_setup, pin16, registered, callback_f, gpioLog, completed>>
    /\ UNCHANGED <<lcd, main>>

edge == edge_within(MaxEdges)
edge_often == edge_within(MaxChanges)

\* The GPIO facility invokes buttonPressed(pin) for one reported change;
\* invocations do not overlap.
buttonPressed_call_with(pins) ==
    /\ pending > 0
    /\ callback_f.pc = "none"
    /\ pending' = pending - 1
    /\ \E pin \in pins :
          /\ callback_f' = [pin |-> pin, level |-> "none", pc |-> "input"]
          /\ gpioLog' = << <<"buttonPressed", pin>> >>
    /\ UNCHANGED <<pin_setup, pin16, pin20, registered, edges, completed>>
    /\ UNCHANGED <<lcd, main>>

buttonPressed_call == buttonPressed_call_with({BUTTON})
buttonPressed_call_any == buttonPressed_call_with(PinArgs)

\* "GPIO.input(20)"
buttonPressed_input ==
    /\ callback_f.pc = "input"
    /\ callback_f' = [callback_f EXCEPT !.level = pin20, !.pc = "output"]
    /\ gpioLog' = Append(gpioLog, <<"input", BUTTON, pin20>>)
    /\ UNCHANGED <<pin_setup, pin16, pin20, registered, pending, edges, completed>>
    /\ UNCHANGED <<lcd, main>>

\* An LED that copies the level of the button.
led_level_same(level) == level

\* "if GPIO.input(20) == GPIO.LOW: HIGH, else: LOW"
led_level(level) == IF level = "LOW" THEN "HIGH" ELSE "LOW"

\* A callback that also writes the backlight flag to the LCD's bus.
buttonPressed_output_bus ==
    /\ callback_f.pc = "output"
    /\ pin16' = led_level(callback_f.level)
    /\ gpioLog' = Append(gpioLog, <<"output", LED, led_level(callback_f.level)>>)
    /\ callback_f' = NoCallback
    /\ completed' = TRUE
    /\ busLog' = Append(busLog, write_byte(I2C_ADDR, LCD_BACKLIGHT))
    /\ sendLog' = Append(sendLog, write_byte(I2C_ADDR, LCD_BACKLIGHT))
    /\ busTotal' = busTotal + 1
    /\ UNCHANGED <<pin_setup, pin20, registered, pending, edges>>
    /\ UNCHANGED <<LCD_BACKLIGHT, stack, frames, lastRender, raised, main>>
    /\ UNCHANGED <<sendBacklight, xferLog, renderCall, frameLog, marqueeCall>>

\* "GPIO.output(16, ...)" and the return of buttonPressed.
buttonPressed_output ==
    /\ callback_f.pc = "output"
    /\ pin16' = led_level(callback_f.level)
    /\ gpioLog' = Append(gpioLog, <<"output", LED, led_level(callback_f.level)>>)
    /\ callback_f' = NoCallback
    /\ completed' = TRUE
    /\ UNCHANGED <<pin_setup, pin20, registered, pending, edges>>
    /\ UNCHANGED <<lcd, main>>

\* ------------------------------------------------------------ main program
DEFAULT_CYCLES == 3

\* The main program with the LCD started before the GPIO pins are set up.
Statements_lcd_first ==
    << "lcd_init", "setup_led", "led_low", "setup_button", "add_event_detect",
       "backlight_on", "marquee_smooth", "lcd_string", "sleep",
       "backlight_off", "lcd_byte" >>

\* The statements of the main program, in the order of the file.
Statements ==
    << "setup_led", "led_low", "setup_button", "add_event_detect",
       "lcd_init", "backlight_on", "marquee_smooth", "lcd_string", "sleep",
       "backlight_off", "lcd_byte" >>

following(pc) ==
    LET k == CHOOSE i \in 1..Len(Statements) : Statements[i] = pc
    IN  IF k = Len(Statements) THEN "done" ELSE Statements[k + 1]

\* The main program is at statement pc, and no call of it is running.
advance(pc) ==
    /\ main_pc = pc
    /\ Top = "idle"
    /\ main_pc' = following(pc)
    /\ mainLog' = Append(mainLog, pc)

\* The edges "GPIO.add_event_detect(20, GPIO.FALLING, ...)" would ask for.
event_kind_falling == "FALLING"

\* "GPIO.BOTH"
event_kind == "BOTH"

\* "GPIO.setup(16, GPIO.OUT)"
main_setup_led ==
    /\ advance("setup_led")
    /\ pin_setup' = [pin_setup EXCEPT ![LED] = "OUT"]
    /\ UNCHANGED <<pin16, pin20, registered, pending, edges, callback_f, gpioLog, completed>>
    /\ UNCHANGED lcd

\* "GPIO.output(16, GPIO.LOW)"
main_led_low ==
    /\ advance("led_low")
    /\ pin16' = "LOW"
    /\ UNCHANGED <<pin_setup, pin20, registered, pending, edges, callback_f, gpioLog, completed>>
    /\ UNCHANGED lcd

\* "GPIO.setup(20, GPIO.IN, GPIO.PUD_UP)"
main_setup_button ==
    /\ advance("setup_button")
    /\ pin_setup' = [pin_setup EXCEPT ![BUTTON] = "IN_PUD_UP"]
    /\ UNCHANGED <<pin16, pin20, registered, pending, edges, callback_f, gpioLog, completed>>
    /\ UNCHANGED lcd

\* "GPIO.add_event_detect(20, GPIO.BOTH, callback=buttonPressed)"
main_add_event_detect ==
    /\ advance("add_event_detect")
    /\ registered' = event_kind
    /\ UNCHANGED <<pin_setup, pin16, pin20, pending, edges, callback_f, gpioLog, completed>>
    /\ UNCHANGED lcd

\* "lcd_init()"
main_lcd_init ==
    /\ advance("lcd_init")
    /\ start_lcd_init
    /\ UNCHANGED <<busTotal, gpio>>

\* "LCD_BACKLIGHT = 0x08"
main_backlight_on ==
    /\ advance("backlight_on")
    /\ LCD_BACKLIGHT' = BACKLIGHT_ON
    /\ UNCHANGED <<stack, frames, history, tally, raised, gpio>>

\* The call of marquee_smooth with the first message, on line 1.
main_marquee_smooth ==
    /\ advance("marquee_smooth")
    /\ start_marquee_smooth({<<HELLO, LCD_LINE_1, DEFAULT_DELAY>>}, {DEFAULT_CYCLES})
    /\ UNCHANGED <<busTotal, gpio>>

\* The call of lcd_string with the second message, on line 2.
main_lcd_string ==
    /\ advance("lcd_string")
    /\ start_lcd_string({PYTHON}, {LCD_LINE_2})
    /\ UNCHANGED <<busTotal, gpio>>

\* "time.sleep(5)"
main_sleep ==
    /\ advance("sleep")
    /\ UNCHANGED <<lcd, gpio>>

\* "LCD_BACKLIGHT = 0x00"
main_backlight_off ==
    /\ advance("backlight_off")
    /\ LCD_BACKLIGHT' = BACKLIGHT_OFF
    /\ UNCHANGED <<stack, frames, history, tally, raised, gpio>>

\* "lcd_byte(0x01, LCD_CMD)"
main_lcd_byte ==
    /\ advance("lcd_byte")
    /\ start_lcd_byte({1}, {LCD_CMD})
    /\ UNCHANGED <<busTotal, gpio>>

InitMain == Start(Statements[1])

\* The GPIO part of the main program and the callback, called with any pin.
NextButton ==
    \/ main_setup_led
    \/ main_led_low
    \/ main_setup_button
    \/ main_add_event_detect
    \/ edge_often
    \/ buttonPressed_call_any
    \/ buttonPressed_input
    \/ buttonPressed_output

SpecButton == InitMain /\ [][NextButton]_vars

\* The whole main program, with the callback invoked for the button's pin.
NextMain ==
    \/ main_setup_led
    \/ main_led_low
    \/ main_setup_button
    \/ main_add_event_detect
    \/ main_lcd_init
    \/ main_backlight_on
    \/ main_marquee_smooth
    \/ main_lcd_string
    \/ main_sleep
    \/ main_backlight_off
    \/ main_lcd_byte
    \/ lcd_init
    \/ lcd_init_return
    \/ lcd_string
    \/ lcd_string_return
    \/ marquee_smooth
    \/ marquee_smooth_sleep
    \/ marquee_smooth_return
    \/ lcd_byte
    \/ edge
    \/ buttonPressed_call
    \/ buttonPressed_input
    \/ buttonPressed_output

SpecMain == InitMain /\ [][NextMain]_vars

\* ------------------------------------------------------------ scrolling
\* The scrolls of a program that has set up its GPIO pins: an empty, a short
\* and an over-long message, with and without delay, for no cycle or one.
ScrollArgs ==
    { <<Msg(0), LCD_LINE_1, DEFAULT_DELAY>>, <<Msg(2), LCD_LINE_2, 0>>,
      <<Msg(MaxLen), OTHER_LINE, DEFAULT_DELAY>> }

call_marquee_smooth_after_setup ==
    /\ main_pc = "lcd_init"
    /\ start_marquee_smooth(ScrollArgs, {0, 1})
    /\ api

\* The button changes level at most once while the program scrolls.
edge_once == edge_within(1)

NextScroll ==
    \/ main_setup_led
    \/ main_led_low
    \/ main_setup_button
    \/ main_add_event_detect
    \/ call_marquee_smooth_after_setup
    \/ marquee_smooth
    \/ marquee_smooth_sleep
    \/ marquee_smooth_return
    \/ lcd_string
    \/ lcd_string_return
    \/ lcd_byte
    \/ edge_once
    \/ buttonPressed_call
    \/ buttonPressed_input
    \/ buttonPressed_output

SpecScroll == InitMain /\ [][NextScroll]_vars

\* The steps of the driver: the interpreter keeps running the main thread,
\* time.sleep returns and, no write failing, so does bus.write_byte.
Driver ==
    \/ marquee_smooth
    \/ marquee_smooth_sleep
    \/ marquee_smooth_return
    \/ lcd_string
    \/ lcd_string_return
    \/ lcd_byte

FairScroll == SpecScroll /\ WF_vars(Driver)


\* ============================================================ properties
IsPrefix(s, t) == Len(s) <= Len(t) /\ \A k \in 1..Len(s) : s[k] = t[k]

IsWrite(e) == e[1] = "write_byte"
Data(log) == [k \in 1..Len(log) |-> log[k][3]]
\* The bytes written to the bus, in order, according to a log of bus events.
Writes(log) == Data(SelectSeq(log, IsWrite))

Max(a, b) == IF a >= b THEN a ELSE b

\* The six bytes one send of (b, m) puts on the bus under backlight bl,
\* in arithmetic: nibble * 16 + mode + backlight, the enable bit worth 4.
UpperByte(b, m, bl) == ((b \div 16) % 16) * 16 + m + bl
LowerByte(b, m, bl) == (b % 16) * 16 + m + bl
SendWrites(b, m, bl) ==
    << UpperByte(b, m, bl), UpperByte(b, m, bl) + 4, UpperByte(b, m, bl),
       LowerByte(b, m, bl), LowerByte(b, m, bl) + 4, LowerByte(b, m, bl) >>

InString == renderCall.fn = "lcd_string"
StringReturned == InString /\ ~Active("lcd_string")
IsData(t) == t[2] = LCD_CHR
IsCommand(t) == t[2] = LCD_CMD

\* What a render of content must send as data: 16 transfers, the code of
\* content[i] while there is one, the space code after it.
ExpectedData(content) ==
    [i \in 1..16 |-> <<IF i <= Len(content) THEN ord[content[i]] ELSE 32, LCD_CHR>>]

\* C1: every lcd_string call, whatever the length of its content and its line,
\* issues exactly 16 data transfers; transfer i carries the code of content[i]
\* when there is one and the space code otherwise, and nothing past index 15
\* is sent.
C1_SixteenDataTransfers ==
    InString =>
        /\ IsPrefix(SelectSeq(xferLog, IsData), ExpectedData(renderCall.message))
        /\ StringReturned =>
              SelectSeq(xferLog, IsData) = ExpectedData(renderCall.message)

C1_Witness ==
    /\ StringReturned
    /\ Len(renderCall.message) > LCD_WIDTH
    /\ Len(SelectSeq(xferLog, IsData)) = 16

\* C2: every lcd_string call issues exactly one command transfer, carrying the
\* line's cursor-home address (0x80 or 0xC0 for the two lines); it is the
\* first transfer and all six of its bus writes are made before the first
\* data transfer begins.
C2_OneCursorCommandFirst ==
    (InString /\ xferLog # <<>>) =>
        /\ xferLog[1] = <<renderCall.line, LCD_CMD>>
        /\ renderCall.line \in Lines => xferLog[1][1] \in {128, 192}
        /\ \A k \in 2..Len(xferLog) : ~IsCommand(xferLog[k])
        /\ Len(xferLog) >= 2 =>
              IsPrefix(SendWrites(renderCall.line, LCD_CMD, sendBacklight), Writes(busLog))
        /\ StringReturned => Len(SelectSeq(xferLog, IsCommand)) = 1

C2_Witness ==
    /\ StringReturned
    /\ renderCall.line = 192
    /\ Len(xferLog) = 17
    /\ xferLog[1] = <<192, LCD_CMD>>

\* The bus writes of six command sends, one after the other.
RECURSIVE CommandWrites(_, _)
CommandWrites(cmds, bl) ==
    IF cmds = <<>> THEN <<>>
    ELSE SendWrites(Head(cmds), 0, bl) \o CommandWrites(Tail(cmds), bl)

InInit == renderCall.fn = "lcd_init"
InitReturned == InInit /\ ~Active("lcd_init")

\* C3: lcd_init issues exactly six transfers, all commands, carrying 0x33,
\* 0x32, 0x06, 0x0C, 0x28, 0x01 in that order, each as its upper-nibble byte
\* then its lower-nibble byte, each latched by an enable pulse, and makes no
\* other bus write.
C3_InitSequence ==
    InInit =>
        /\ IsPrefix(xferLog, << <<51, 0>>, <<50, 0>>, <<6, 0>>, <<12, 0>>, <<40, 0>>, <<1, 0>> >>)
        /\ IsPrefix(Writes(busLog), CommandWrites(<<51, 50, 6, 12, 40, 1>>, sendBacklight))
        /\ Len(Writes(busLog)) <= 6 * Len(xferLog)
        /\ Len(Writes(busLog)) >= 6 * (Len(xferLog) - 1)
        /\ InitReturned => /\ Len(xferLog) = 6
                           /\ Len(Writes(busLog)) = 36

C3_Witness ==
    /\ InitReturned
    /\ Len(Writes(busLog)) = 36
    /\ sendBacklight = BACKLIGHT_ON

SendStarted == xferLog # <<>>
SendReturned == SendStarted /\ ~Active("lcd_byte")
\* The arguments of the current (or last) lcd_byte call.
SendBits == xferLog[Len(xferLog)][1]
SendMode == xferLog[Len(xferLog)][2]
\* A byte with its enable bit cleared.
WithoutEnable(x) == IF (x \div 4) % 2 = 1 THEN x - 4 ELSE x
WithEnable(x) == IF (x \div 4) % 2 = 1 THEN x ELSE x + 4

\* C4: lcd_byte(b, m) first writes the upper-nibble byte (b & 0xF0) | m |
\* backlight and latches it, and only then writes the lower-nibble byte
\* ((b << 4) & 0xF0) | m | backlight and latches it; no byte of the upper
\* nibble follows a byte of the lower nibble.
C4_UpperThenLower ==
    SendStarted =>
        LET w == Writes(sendLog)
            up == UpperByte(SendBits, SendMode, sendBacklight)
            lo == LowerByte(SendBits, SendMode, sendBacklight)
        IN  /\ Len(w) >= 1 => w[1] = up
            /\ Len(w) >= 4 => w[4] = lo
            /\ \A k \in 1..Len(w) :
                  WithoutEnable(w[k]) = (IF k <= 3 THEN up ELSE lo)
            /\ SendReturned => Len(w) >= 4

C4_Witness ==
    /\ SendReturned
    /\ renderCall.fn = "lcd_byte"
    /\ xferLog = << <<165, LCD_CHR>> >>
    /\ sendBacklight = BACKLIGHT_ON
    /\ Writes(sendLog)[1] = 169
    /\ Writes(sendLog)[4] = 89

\* C5 as stated: one lcd_byte call causes exactly four bus writes.
C5_FourBusWrites ==
    SendReturned => Len(Writes(sendLog)) = 4

\* C5: one lcd_byte call causes exactly six bus writes: the two nibble writes
\* and two writes by each of its two enable pulses.
C5_SixBusWrites ==
    SendStarted =>
        /\ Len(Writes(sendLog)) <= 6
        /\ SendReturned => Len(Writes(sendLog)) = 6

C5_Witness ==
    /\ SendReturned
    /\ renderCall.fn = "lcd_byte"
    /\ Len(Writes(sendLog)) = 6


\* The five events of one enable pulse given byte x: settle delay, x with the
\* enable bit set, pulse delay, x with the enable bit cleared, settle delay.
ExpectedPulse(x) ==
    << <<"sleep", E_DELAY>>, <<"write_byte", I2C_ADDR, WithEnable(x)>>,
       <<"sleep", E_PULSE>>, <<"write_byte", I2C_ADDR, WithoutEnable(x)>>,
       <<"sleep", E_DELAY>> >>

Min(a, b) == IF a <= b THEN a ELSE b

\* The events that follow the nibble write at position k of the send's log,
\* up to the next nibble write.
PulseAfter(k) == SubSeq(sendLog, k + 1, Min(k + 5, Len(sendLog)))

\* C6: every enable pulse given byte x is, in this order and with nothing in
\* between, a settle delay E_DELAY, a bus write of x with the enable bit set,
\* a pulse delay E_PULSE, a bus write of x with the enable bit cleared and a
\* settle delay E_DELAY; its two writes differ only in the enable bit, and
\* every delay is at least 500 microseconds.
C6_EnablePulse ==
    SendStarted =>
        /\ Len(sendLog) >= 1 =>
              /\ IsWrite(sendLog[1])
              /\ IsPrefix(PulseAfter(1), ExpectedPulse(sendLog[1][3]))
        /\ Len(sendLog) >= 7 =>
              /\ PulseAfter(1) = ExpectedPulse(sendLog[1][3])
              /\ IsWrite(sendLog[7])
              /\ IsPrefix(PulseAfter(7), ExpectedPulse(sendLog[7][3]))
        /\ Len(sendLog) <= 12
        /\ SendReturned => PulseAfter(7) = ExpectedPulse(sendLog[7][3])
        /\ \A k \in 1..Len(sendLog) : ~IsWrite(sendLog[k]) => sendLog[k][2] >= 500
        /\ \A k \in {3, 9} :
              Len(sendLog) >= k + 2 =>
                 /\ sendLog[k][3] = sendLog[k + 2][3] + 4
                 /\ (sendLog[k + 2][3] \div 4) % 2 = 0

C6_Witness ==
    /\ SendReturned
    /\ Len(sendLog) = 12
    /\ sendLog[1] = <<"write_byte", I2C_ADDR, 169>>
    /\ PulseAfter(1) = << <<"sleep", 500>>, <<"write_byte", I2C_ADDR, 173>>, <<"sleep", 500>>,
                          <<"write_byte", I2C_ADDR, 169>>, <<"sleep", 500>> >>

BacklightBit(x) == ((x \div 8) % 2) * 8

\* Every byte of a send carries the backlight state the send started with,
\* and a send in progress carries the current backlight state.
C7_BytesCarryBacklight ==
    SendStarted =>
        /\ \A k \in 1..Len(sendLog) :
              IsWrite(sendLog[k]) => BacklightBit(sendLog[k][3]) = sendBacklight
        /\ stack # <<>> =>
              \A k \in 1..Len(busLog) :
                 IsWrite(busLog[k]) => BacklightBit(busLog[k][3]) = LCD_BACKLIGHT

\* A change of the backlight state writes nothing and alters nothing sent.
C7_ChangeWritesNothing ==
    LCD_BACKLIGHT' # LCD_BACKLIGHT =>
        /\ busLog' = busLog
        /\ sendLog' = sendLog
        /\ xferLog' = xferLog

\* C7: the backlight bit (0x08) of every byte written equals the backlight
\* state when the enclosing lcd_byte started; changing the backlight state
\* writes nothing to the bus and alters no byte already sent, and every
\* transfer started after the change carries the new state.
C7_Backlight == []C7_BytesCarryBacklight /\ [][C7_ChangeWritesNothing]_vars

C7_Witness ==
    /\ SendReturned
    /\ LCD_BACKLIGHT = BACKLIGHT_ON
    /\ sendBacklight = BACKLIGHT_ON
    /\ Len(Writes(sendLog)) = 6
    /\ \A k \in 1..6 : BacklightBit(Writes(sendLog)[k]) = 8

InMarquee == marqueeCall.fn = "marquee_smooth"
MarqueeReturned == InMarquee /\ ~Active("marquee_smooth")
IsFrame(e) == e[1] = "lcd_string"
\* The lcd_string calls of the current scroll, in order.
Frames == SelectSeq(frameLog, IsFrame)
FrameTotal == marqueeCall.cycles * (Max(Len(marqueeCall.message), 16) + 16)

\* C8: marquee_smooth calls lcd_string exactly cycles * (max(len(message), 16)
\* + 16) times before it returns, for every message, line, delay and cycles.
C8_FrameCount ==
    InMarquee =>
        /\ Len(Frames) <= FrameTotal
        /\ MarqueeReturned => Len(Frames) = FrameTotal

C8_Witness ==
    /\ MarqueeReturned
    /\ Len(marqueeCall.message) = 2
    /\ marqueeCall.cycles = 1
    /\ Len(Frames) = 32

\* The backing buffer of a scroll of m: m, spaces up to 16 characters, then
\* 16 more spaces.
BufferLength(m) == IF Len(m) >= 16 THEN Len(m) + 16 ELSE 32
Buffer(m) == [i \in 1..BufferLength(m) |-> IF i <= Len(m) THEN m[i] ELSE " "]
\* The window at scroll position p: buffer[(p + i) mod buffer_length], i = 0..15.
WindowAt(m, p) ==
    [i \in 1..16 |-> Buffer(m)[((p + (i - 1)) % BufferLength(m)) + 1]]
BetweenFrames == Top \in {"marquee_smooth", "idle"}

\* C9: the backing buffer is the message padded to at least 16 characters
\* plus 16 spaces, and the k-th frame of a scroll (counted from 0, through all
\* cycles) is the window at position k mod buffer_length on the line given,
\* so each frame is the one before it advanced by one position with
\* wraparound, across cycle boundaries too.
C9_FramesAreWindows ==
    InMarquee =>
        /\ Active("marquee_smooth") =>
              /\ marquee_f.scroll_text = Buffer(marqueeCall.message)
              /\ marquee_f.length = BufferLength(marqueeCall.message)
        /\ BetweenFrames =>
              \A k \in 1..Len(Frames) :
                 Frames[k] = <<"lcd_string",
                               WindowAt(marqueeCall.message,
                                        (k - 1) % BufferLength(marqueeCall.message)),
                               marqueeCall.line>>

C9_Witness ==
    /\ InMarquee
    /\ Len(marqueeCall.message) = MaxLen
    /\ Len(Frames) = BufferLength(marqueeCall.message) + 2
    /\ Frames[Len(Frames)][2] = WindowAt(marqueeCall.message, 1)
    /\ Frames[BufferLength(marqueeCall.message)][2][2] = marqueeCall.message[1]

\* C10: for a message shorter than 16 characters, frame 0 is the message
\* padded with spaces to 16 characters, and with two cycles or more the frame
\* of index buffer_length (32) is frame 0 again.
C10_PeriodOfShortMessage ==
    (InMarquee /\ Len(marqueeCall.message) < 16 /\ BetweenFrames) =>
        /\ Len(Frames) >= 1 =>
              Frames[1][2] = [i \in 1..16 |-> IF i <= Len(marqueeCall.message)
                                             THEN marqueeCall.message[i] ELSE " "]
        /\ Len(Frames) >= 33 => Frames[33] = Frames[1]
        /\ (MarqueeReturned /\ marqueeCall.cycles >= 2) => Len(Frames) >= 33

C10_Witness ==
    /\ InMarquee
    /\ marqueeCall.message = <<"A", "B">>
    /\ marqueeCall.cycles >= 2
    /\ Len(Frames) >= 33
    /\ Frames[33][2] = <<"A", "B">> \o Spaces(14)


\* A byte with its backlight bit cleared.
WithoutBacklight(x) == x - BacklightBit(x)
RenderedTwice == StringReturned /\ lastRender.fn = "lcd_string"

\* C12 as stated: two lcd_string calls with the same content and line make
\* the same bus writes, whatever happened between them.
C12_SameBusWrites ==
    RenderedTwice => Writes(busLog) = Writes(lastRender.busLog)

\* C12: two lcd_string calls with the same content and line make the same
\* transfers (value and mode), and bus writes that are the same up to the
\* backlight bit; the bus writes are the same when the backlight state is the
\* same at both calls.
C12_SameTransfers ==
    RenderedTwice =>
        LET w1 == Writes(lastRender.busLog)
            w2 == Writes(busLog)
        IN  /\ xferLog = lastRender.xferLog
            /\ Len(w1) = Len(w2)
            /\ \A k \in 1..Len(w2) : WithoutBacklight(w1[k]) = WithoutBacklight(w2[k])
            /\ BacklightBit(w1[1]) = BacklightBit(w2[1]) => w1 = w2

C12_Witness ==
    /\ RenderedTwice
    /\ renderCall.message = <<"A", "B">>
    /\ Len(Writes(busLog)) = 102
    /\ Writes(busLog) # Writes(lastRender.busLog)

\* C13: a line value other than 0x80 and 0xC0 is rejected: no lcd_string call
\* (made directly or by marquee_smooth) sends a line-select command whose
\* byte is neither of them.
C13_OnlyCursorHomeAddresses ==
    (InString /\ xferLog # <<>>) =>
        /\ xferLog[1][1] \in {128, 192}
        /\ Len(Writes(busLog)) >= 1 =>
              WithoutBacklight(Writes(busLog)[1]) \in {128, 192}

EnableBit(x) == (x \div 4) % 2
ReadWriteBit(x) == (x \div 2) % 2
ModeBit(x) == x % 2

\* C19: in every send, the enable bit (0x04) is set in exactly the 2nd and
\* 5th of its six bus writes, the read/write bit (0x02) is clear in all of
\* them, and the mode bit (0x01) is the same in all of them: 1 for a
\* character transfer, 0 for a command transfer.
C19_ControlBits ==
    SendStarted =>
        LET w == Writes(sendLog)
        IN  /\ \A k \in 1..Len(w) :
                  /\ EnableBit(w[k]) = (IF k \in {2, 5} THEN 1 ELSE 0)
                  /\ ReadWriteBit(w[k]) = 0
                  /\ ModeBit(w[k]) = SendMode
            /\ SendMode \in {0, 1}
            /\ InInit => SendMode = 0
            /\ InString => SendMode = (IF Len(xferLog) = 1 THEN 0 ELSE 1)
            /\ SendReturned => Len(w) = 6

C19_Witness ==
    /\ SendReturned
    /\ InString
    /\ SendMode = 1
    /\ sendBacklight = BACKLIGHT_ON
    /\ \A k \in 1..6 : ModeBit(Writes(sendLog)[k]) = 1
    /\ EnableBit(Writes(sendLog)[2]) = 1
    /\ EnableBit(Writes(sendLog)[5]) = 1

\* C20: every bus write targets device address 0x27 and carries a value in
\* 0..255, whatever value lcd_byte is passed; of a character code above 255
\* only the low 8 bits reach the bus.
C20_EightBitWrites ==
    /\ \A k \in 1..Len(sendLog) :
          IsWrite(sendLog[k]) => /\ sendLog[k][2] = 39
                                 /\ sendLog[k][3] \in 0..255
    /\ SendStarted =>
          IsPrefix(Writes(sendLog), SendWrites(SendBits % 256, SendMode, sendBacklight))

C20_Witness ==
    /\ SendReturned
    /\ SendBits = 9786
    /\ sendBacklight = BACKLIGHT_ON
    /\ Writes(sendLog) = <<57, 61, 57, 169, 173, 169>>


IsBusError(e) == e[1] = "BusError"
Failed == raised = "BusError"

\* After a failed write: the error is with the caller (no function of the
\* driver is still running), the failed write is the last bus event and was
\* attempted once; without a failure no write has failed.
C14_ErrorEndsTheCall ==
    /\ Failed =>
          /\ stack = <<>>
          /\ busLog # <<>>
          /\ IsBusError(busLog[Len(busLog)])
          /\ Len(SelectSeq(busLog, IsBusError)) = 1
    /\ ~Failed => SelectSeq(busLog, IsBusError) = <<>>

\* The failure changes neither the backlight state nor the count of bus
\* writes, and nothing is written while the error stands.
C14_NothingAfterTheError ==
    /\ (Failed' /\ ~Failed) =>
          /\ LCD_BACKLIGHT' = LCD_BACKLIGHT
          /\ busTotal' = busTotal
          /\ Writes(busLog') = Writes(busLog)
    /\ (Failed /\ Failed') => busLog' = busLog /\ busTotal' = busTotal

\* C14: when a bus write fails with a BusError inside lcd_byte,
\* lcd_toggle_enable, lcd_init, lcd_string or marquee_smooth, the error
\* reaches the caller: the write is not retried, the operation makes no bus
\* write after it, and the backlight state stays as it was.
C14_BusErrorPropagates == []C14_ErrorEndsTheCall /\ [][C14_NothingAfterTheError]_vars

C14_Witness ==
    /\ Failed
    /\ marqueeCall.fn = "marquee_smooth"
    /\ Len(frameLog) >= 3
    /\ Len(Writes(busLog)) = 8
    /\ LCD_BACKLIGHT = BACKLIGHT_ON
    /\ IsBusError(busLog[Len(busLog)])
    /\ busLog[Len(busLog)][2] = I2C_ADDR

Levels == {"LOW", "HIGH"}
Opposite(level) == IF level = "HIGH" THEN "LOW" ELSE "HIGH"
InCallback == callback_f.pc # "none"
CallbackReturned == callback_f.pc = "none" /\ gpioLog # <<>>
CallbackStep == InCallback /\ callback_f' # callback_f

\* The GPIO calls of one invocation with this argument that samples level.
ExpectedCalls(pin, level) ==
    << <<"buttonPressed", pin>>, <<"input", 20, level>>, <<"output", 16, Opposite(level)>> >>

\* The GPIO calls of an invocation are one read of pin 20, then one write
\* of the opposite level to pin 16, whatever the argument.
C11_OneReadOneWrite ==
    gpioLog # <<>> =>
        \E pin \in PinArgs, level \in Levels :
            /\ IsPrefix(gpioLog, ExpectedCalls(pin, level))
            /\ CallbackReturned =>
                  /\ gpioLog = ExpectedCalls(pin, level)
                  /\ pin16 = Opposite(level)

\* The read samples the level pin 20 has at that moment, the write drives
\* pin 16 opposite to the sample, and a step of the callback changes nothing
\* else.
C11_ReflectsTheSample ==
    CallbackStep =>
        /\ callback_f.pc = "input" =>
              /\ gpioLog' = Append(gpioLog, <<"input", 20, pin20>>)
              /\ pin16' = pin16
        /\ callback_f.pc = "output" =>
              /\ gpioLog' = Append(gpioLog, <<"output", 16, Opposite(gpioLog[2][3])>>)
              /\ pin16' = Opposite(gpioLog[2][3])
              /\ ~InCallback'
        /\ UNCHANGED <<pin_setup, pin20, registered, pending, edges, lcd, main>>

\* C11: every invocation of buttonPressed, whatever pin argument it gets and
\* whatever earlier invocations did, reads pin 20 exactly once and writes pin
\* 16 exactly once: HIGH if the sample is LOW, LOW if it is HIGH; it keeps no
\* state and writes no other pin.
C11_ButtonReflection == []C11_OneReadOneWrite /\ [][C11_ReflectsTheSample]_vars

C11_Witness ==
    /\ CallbackReturned
    /\ gpioLog = ExpectedCalls(16, "HIGH")
    /\ pin16 = "LOW"
    /\ edges >= 2
    /\ pending = 0

Quiet == completed /\ pending = 0 /\ ~InCallback

\* C18: with one invocation of buttonPressed for every level change of pin
\* 20 and no two invocations overlapping, whenever an invocation has
\* completed and none is pending or running, pin 16 is HIGH exactly when pin
\* 20 is LOW.
C18_LedFollowsButton ==
    Quiet => (pin16 = "HIGH" <=> pin20 = "LOW")

C18_Witness ==
    /\ Quiet
    /\ pin20 = "LOW"
    /\ pin16 = "HIGH"
    /\ edges >= 3
    /\ registered = "BOTH"

\* The transfers of the main program: 6 of lcd_init, 17 for each of the
\* 3 * (16 + 16) frames of the scroll, 17 of the static line, 1 to clear.
InitCommands == <<51, 50, 6, 12, 40, 1>>
InitTransfers == Len(InitCommands)
ScrollTransfers == 3 * (16 + 16) * 17
MainTransfers == InitTransfers + ScrollTransfers + 17 + 1

\* Transfer t (from 0) of the main program when nothing but the main program
\* runs, as <<value, mode, backlight>>.
MainTransfer(t) ==
    IF t < InitTransfers
    THEN << InitCommands[t + 1], 0, 0 >>
    ELSE IF t < InitTransfers + ScrollTransfers
    THEN LET u == t - InitTransfers
         IN  IF u % 17 = 0 THEN <<128, 0, 8>>
             ELSE << ord[WindowAt(HELLO, (u \div 17) % 32)[u % 17]], 1, 8 >>
    ELSE IF t < MainTransfers - 1
    THEN LET u == t - InitTransfers - ScrollTransfers
         IN  IF u = 0 THEN <<192, 0, 8>> ELSE << ord[PYTHON[u]], 1, 8 >>
    ELSE <<1, 0, 0>>

\* Bus write n (from 1) of the main program when nothing but it runs.
MainByte(n) ==
    LET x == MainTransfer((n - 1) \div 6)
    IN  SendWrites(x[1], x[2], x[3])[((n - 1) % 6) + 1]

\* The bus writes made so far end with those of the current send, and each
\* is the byte the main program alone would write at that place.
C15_SameBytes ==
    /\ busTotal <= 6 * MainTransfers
    /\ Len(Writes(sendLog)) <= busTotal
    /\ \A k \in 1..Len(Writes(sendLog)) :
          Writes(sendLog)[k] = MainByte(busTotal - Len(Writes(sendLog)) + k)

\* A step of the callback (its invocation included) changes neither the bus
\* nor the backlight state nor the driver; a bus write is a step of lcd_byte
\* and of nothing else.
C15_CallbackLeavesTheBus ==
    /\ (callback_f' # callback_f) =>
          UNCHANGED <<LCD_BACKLIGHT, busLog, sendLog, xferLog, busTotal, stack, frames>>
    /\ (busTotal' # busTotal \/ busLog' # busLog \/ sendLog' # sendLog) =>
          /\ Top = "lcd_byte" \/ Top' = "lcd_byte" \/ stack' # stack
          /\ UNCHANGED <<callback_f, gpioLog, pin16>>
    /\ busTotal' # busTotal =>
          /\ Top = "lcd_byte"
          /\ busTotal' = busTotal + 1
          /\ Len(Writes(sendLog')) = Len(Writes(sendLog)) + 1

\* C15: no invocation of buttonPressed writes to the bus or changes the
\* backlight state, so under every interleaving of invocations with the main
\* program the bytes written to the bus are those written with no callback
\* at all, and the six bus writes of a send are not separated by a write of
\* another party.
C15_BusIsMainOnly == []C15_SameBytes /\ [][C15_CallbackLeavesTheBus]_vars

C15_Witness ==
    /\ completed
    /\ ~InCallback
    /\ gpioLog = ExpectedCalls(20, "LOW")
    /\ Top = "lcd_byte"
    /\ Len(Writes(sendLog)) = 3
    /\ busTotal = 36 + 102 + 3
    /\ pin16 = "HIGH"

InClear == renderCall.fn = "lcd_byte"
AllBacklight(log, bl) ==
    \A k \in 1..Len(log) : IsWrite(log[k]) => BacklightBit(log[k][3]) = bl

\* Where the main program is, according to the bus writes made so far:
\* the GPIO pins are ready before the first one; up to the 36th the
\* transfers are those of lcd_init, without backlight; a message transfer
\* comes after all of them and carries the backlight bit, the scroll before
\* the static line; the clear command comes after both messages are
\* complete, without backlight, and nothing follows it.
C17_TopLevelOrder ==
    /\ busTotal > 0 =>
          /\ Len(mainLog) >= 5
          /\ SubSeq(mainLog, 1, 5) =
                <<"setup_led", "led_low", "setup_button", "add_event_detect", "lcd_init">>
          /\ pin_setup[16] = "OUT"
          /\ pin_setup[20] = "IN_PUD_UP"
          /\ pin16 \in Levels
          /\ registered = "BOTH"
    /\ main_pc \in {"setup_led", "led_low", "setup_button", "add_event_detect", "lcd_init"} =>
          busTotal = 0 /\ xferLog = <<>>
    /\ InInit =>
          /\ busTotal <= 6 * InitTransfers
          /\ AllBacklight(sendLog, 0)
          /\ (busTotal = 6 * InitTransfers /\ Top # "lcd_byte") => xferLog = [k \in 1..6 |-> <<InitCommands[k], 0>>]
    /\ (InMarquee \/ InString) =>
          /\ busTotal >= 6 * InitTransfers
          /\ busTotal <= 6 * (MainTransfers - 1)
          /\ AllBacklight(sendLog, 8)
          /\ ~Active("lcd_init")
    /\ MarqueeReturned =>
          /\ busTotal = 6 * (InitTransfers + ScrollTransfers)
          /\ Len(Frames) = 3 * (16 + 16)
    /\ (InString /\ ~InMarquee) =>
          /\ busTotal >= 6 * (InitTransfers + ScrollTransfers)
          /\ renderCall.message = PYTHON
          /\ renderCall.line = 192
    /\ InClear =>
          /\ busTotal >= 6 * (MainTransfers - 1)
          /\ busTotal <= 6 * MainTransfers
          /\ xferLog = << <<1, 0>> >>
          /\ AllBacklight(sendLog, 0)
          /\ IsPrefix(Writes(busLog), SendWrites(1, 0, 0))
          /\ mainLog = <<"setup_led", "led_low", "setup_button", "add_event_detect",
                         "lcd_init", "backlight_on", "marquee_smooth", "lcd_string",
                         "sleep", "backlight_off", "lcd_byte">>
    /\ (main_pc = "done" /\ Top = "idle") =>
          /\ InClear
          /\ busTotal = 6 * MainTransfers
          /\ Writes(busLog) = SendWrites(1, 0, 0)

\* A step of the main program that starts a message or the clear command
\* finds the one before it complete.
C17_EachCompleteBeforeTheNext ==
    /\ (~InMarquee /\ InMarquee') => /\ InitReturned
                                     /\ Len(xferLog) = 6
                                     /\ busTotal = 36
                                     /\ marqueeCall'.message = HELLO
                                     /\ marqueeCall'.line = 128
    /\ (InMarquee /\ ~InMarquee') => /\ MarqueeReturned
                                     /\ Len(Frames) = 96
                                     /\ busTotal = 36 + 96 * 102
                                     /\ renderCall'.message = PYTHON
                                     /\ renderCall'.line = 192
    /\ (~InClear /\ InClear') => /\ StringReturned
                                 /\ renderCall.message = PYTHON
                                 /\ Len(xferLog) = 17
                                 /\ busTotal = 36 + 96 * 102 + 102
    /\ (InClear /\ busTotal = 6 * MainTransfers) => UNCHANGED <<busLog, xferLog, busTotal>>

\* C17: in the main program the LED pin is set up and driven LOW, the button
\* pin set up and the callback registered, all before the first bus write;
\* the six transfers of lcd_init complete before any message transfer; the
\* scrolled and the static message are both complete before the clear
\* command, which is the last transfer on the bus. The transfers of lcd_init
\* and the clear carry backlight bit 0, all between them carry 0x08.
C17_MainSequence == []C17_TopLevelOrder /\ [][C17_EachCompleteBeforeTheNext]_vars

C17_Witness ==
    /\ main_pc = "done"
    /\ Top = "idle"
    /\ busTotal = 9936
    /\ Writes(busLog) = <<0, 4, 0, 16, 20, 16>>
    /\ LCD_BACKLIGHT = 0
    /\ registered = "BOTH"

Scrolling == Active("marquee_smooth")

\* A scroll that has returned has rendered all its frames, each followed by
\* its delay; one that has not has rendered no more than all.
C16_AllFramesThenDelay ==
    InMarquee =>
        /\ Len(Frames) <= FrameTotal
        /\ Len(frameLog) <= 2 * FrameTotal
        /\ \A k \in 1..Len(frameLog) :
              IF k % 2 = 1 THEN IsFrame(frameLog[k])
              ELSE frameLog[k] = <<"sleep", marqueeCall.delay>>
        /\ MarqueeReturned => Len(frameLog) = 2 * FrameTotal

\* The scroll ends by its own return, after the delay of its last frame; a
\* change of the button or a step of the callback leaves it where it is.
C16_NoEarlyReturn ==
    /\ (Scrolling /\ ~Scrolling') =>
          /\ Top = "marquee_smooth"
          /\ Len(frameLog) = 2 * FrameTotal
          /\ frameLog' = frameLog
    /\ (callback_f' # callback_f \/ pin20' # pin20) =>
          UNCHANGED <<stack, marquee_f, string_f, byte_f, frameLog>>

\* C16: for every message, line, delay >= 0 and cycles >= 0, no bus write
\* failing, a marquee_smooth call eventually returns, and only after the
\* last of its cycles * (len(padded message) + 16) frames was rendered and
\* followed by its delay; no event, a button callback included, makes it
\* return earlier.
C16_ScrollRunsToCompletion ==
    /\ []C16_AllFramesThenDelay
    /\ [][C16_NoEarlyReturn]_vars
    /\ (Scrolling ~> MarqueeReturned)

C16_Witness ==
    /\ MarqueeReturned
    /\ marqueeCall.cycles = 1
    /\ Len(marqueeCall.message) = MaxLen
    /\ Len(frameLog) = 2 * (MaxLen + 16)
    /\ frameLog[Len(frameLog)] = <<"sleep", 300000>>
    /\ completed

====
